---- MODULE Spec2Model ----
(***************************************************************************)
(* Model of the ticket bot's knowledge base (src/knowledge_base.py) and of *)
(* the handlers of src/bot.py that drive it.                               *)
(*                                                                         *)
(* Text is a sequence of one-character strings, so that split, replace     *)
(* and strip work on characters as Python's str methods do.                *)
(***************************************************************************)
EXTENDS Integers, Sequences, FiniteSets, Bags, TLC

(* ------------------------------------------------------------------ *)
(* Python str helpers                                                  *)
(* ------------------------------------------------------------------ *)

Whitespace == {" ", "\n", "\t"}

UpperChars == <<"A","B","C","D","E","F","G","H","I","J","K","L","M",
                "N","O","P","Q","R","S","T","U","V","W","X","Y","Z">>

LowerChars == <<"a","b","c","d","e","f","g","h","i","j","k","l","m",
                "n","o","p","q","r","s","t","u","v","w","x","y","z">>

\* str.lower() on one character
LowerChar(c) ==
  IF \E i \in 1..Len(UpperChars) : UpperChars[i] = c
  THEN LowerChars[CHOOSE i \in 1..Len(UpperChars) : UpperChars[i] = c]
  ELSE c

\* str.lower()
Lower(s) == [i \in 1..Len(s) |-> LowerChar(s[i])]

\* s[i:] starts with sub (i is 1-based)
StartsWithAt(s, sub, i) ==
  /\ i + Len(sub) - 1 <= Len(s)
  /\ \A k \in 1..Len(sub) : s[i + k - 1] = sub[k]

\* sub in s
Contains(s, sub) == \E i \in 1..(Len(s) + 1) : StartsWithAt(s, sub, i)

\* first position of sub in s, 0 when absent (str.find, 1-based)
FindFrom(s, sub, from) ==
  IF \E i \in from..(Len(s) + 1) : StartsWithAt(s, sub, i)
  THEN CHOOSE i \in from..(Len(s) + 1) :
         /\ StartsWithAt(s, sub, i)
         /\ \A j \in from..(i - 1) : ~StartsWithAt(s, sub, j)
  ELSE 0

\* str.replace(old, new) for a non-empty old: every non-overlapping
\* occurrence, left to right
RECURSIVE ReplaceFrom(_, _, _, _)
ReplaceFrom(s, old, new, from) ==
  LET p == FindFrom(s, old, from) IN
  IF p = 0
  THEN SubSeq(s, from, Len(s))
  ELSE SubSeq(s, from, p - 1) \o new \o ReplaceFrom(s, old, new, p + Len(old))

Replace(s, old, new) == ReplaceFrom(s, old, new, 1)

\* str.strip()
RECURSIVE LStrip(_)
LStrip(s) ==
  IF s # <<>> /\ Head(s) \in Whitespace THEN LStrip(Tail(s)) ELSE s

RECURSIVE RStrip(_)
RStrip(s) ==
  IF s # <<>> /\ s[Len(s)] \in Whitespace
  THEN RStrip(SubSeq(s, 1, Len(s) - 1))
  ELSE s

Strip(s) == RStrip(LStrip(s))

\* str.split(sep) for a non-empty sep: the list of pieces between the
\* non-overlapping occurrences of sep, left to right
RECURSIVE SplitFrom(_, _, _)
SplitFrom(s, sep, from) ==
  LET p == FindFrom(s, sep, from) IN
  IF p = 0
  THEN << SubSeq(s, from, Len(s)) >>
  ELSE << SubSeq(s, from, p - 1) >> \o SplitFrom(s, sep, p + Len(sep))

Split(s, sep) == SplitFrom(s, sep, 1)

(* ------------------------------------------------------------------ *)
(* KnowledgeBase.preprocess_query                                      *)
(* ------------------------------------------------------------------ *)

\* the alias table, in the dict's insertion order: <<variation, standard>>
variations ==
  <<
    <<<<"t","i","m","e","z","o","n","e"," ","o","f"," ","t","h","e"," ","s","e","r","v","e","r">>,
      <<"s","e","r","v","e","r"," ","t","i","m","e","z","o","n","e">>>>,
    <<<<"s","e","r","v","e","r"," ","t","i","m","e","z","o","n","e">>,
      <<"s","e","r","v","e","r"," ","t","i","m","e","z","o","n","e">>>>,
    <<<<"w","h","a","t"," ","t","i","m","e","z","o","n","e">>,
      <<"s","e","r","v","e","r"," ","t","i","m","e","z","o","n","e">>>>,
    <<<<"t","i","m","e"," ","z","o","n","e">>,
      <<"t","i","m","e","z","o","n","e">>>>,
    <<<<"s","e","r","v","e","r"," ","t","i","m","e">>,
      <<"s","e","r","v","e","r"," ","t","i","m","e","z","o","n","e">>>>,
    <<<<"r","u","l","e","s"," ","o","f"," ","t","h","e"," ","s","e","r","v","e","r">>,
      <<"s","e","r","v","e","r"," ","r","u","l","e","s">>>>,
    <<<<"s","e","r","v","e","r"," ","r","u","l","e","s">>,
      <<"s","e","r","v","e","r"," ","r","u","l","e","s">>>>,
    <<<<"w","h","a","t"," ","a","r","e"," ","t","h","e"," ","r","u","l","e","s">>,
      <<"s","e","r","v","e","r"," ","r","u","l","e","s">>>>,
    <<<<"g","u","i","d","e","l","i","n","e","s">>,
      <<"s","e","r","v","e","r"," ","r","u","l","e","s">>>>,
    <<<<"h","o","w"," ","t","o"," ","s","t","a","r","t">>,
      <<"g","e","t"," ","s","t","a","r","t","e","d">>>>,
    <<<<"g","e","t","t","i","n","g"," ","s","t","a","r","t","e","d">>,
      <<"g","e","t"," ","s","t","a","r","t","e","d">>>>,
    <<<<"n","e","w"," ","h","e","r","e">>,
      <<"g","e","t"," ","s","t","a","r","t","e","d">>>>,
    <<<<"b","e","g","i","n","n","e","r">>,
      <<"g","e","t"," ","s","t","a","r","t","e","d">>>>,
    <<<<"h","o","w"," ","t","o"," ","g","e","t"," ","r","o","l","e","s">>,
      <<"g","e","t"," ","r","o","l","e","s">>>>,
    <<<<"a","s","s","i","g","n"," ","r","o","l","e","s">>,
      <<"g","e","t"," ","r","o","l","e","s">>>>,
    <<<<"r","o","l","e"," ","a","s","s","i","g","n","m","e","n","t">>,
      <<"g","e","t"," ","r","o","l","e","s">>>>,
    <<<<"w","h","o"," ","a","r","e"," ","m","o","d","s">>,
      <<"m","o","d","e","r","a","t","o","r","s">>>>,
    <<<<"a","d","m","i","n">>,
      <<"m","o","d","e","r","a","t","o","r","s">>>>,
    <<<<"s","t","a","f","f">>,
      <<"m","o","d","e","r","a","t","o","r","s">>>>,
    <<<<"r","e","p","o","r","t"," ","i","s","s","u","e">>,
      <<"r","e","p","o","r","t"," ","p","r","o","b","l","e","m">>>>,
    <<<<"r","e","p","o","r","t"," ","s","o","m","e","o","n","e">>,
      <<"r","e","p","o","r","t"," ","p","r","o","b","l","e","m">>>>,
    <<<<"c","o","m","p","l","a","i","n","t">>,
      <<"r","e","p","o","r","t"," ","p","r","o","b","l","e","m">>>>,
    <<<<"v","o","i","c","e"," ","c","h","a","n","n","e","l","s">>,
      <<"v","o","i","c","e"," ","c","h","a","n","n","e","l","s">>>>,
    <<<<"v","c">>,
      <<"v","o","i","c","e"," ","c","h","a","n","n","e","l","s">>>>,
    <<<<"v","o","i","c","e"," ","c","h","a","t">>,
      <<"v","o","i","c","e"," ","c","h","a","n","n","e","l","s">>>>,
    <<<<"i","n","v","i","t","e"," ","f","r","i","e","n","d","s">>,
      <<"i","n","v","i","t","e"," ","f","r","i","e","n","d","s">>>>,
    <<<<"a","d","d"," ","f","r","i","e","n","d","s">>,
      <<"i","n","v","i","t","e"," ","f","r","i","e","n","d","s">>>>,
    <<<<"s","h","a","r","e"," ","s","e","r","v","e","r">>,
      <<"i","n","v","i","t","e"," ","f","r","i","e","n","d","s">>>>,
    <<<<"m","u","s","i","c"," ","b","o","t">>,
      <<"m","u","s","i","c"," ","b","o","t">>>>,
    <<<<"p","l","a","y"," ","m","u","s","i","c">>,
      <<"m","u","s","i","c"," ","b","o","t">>>>,
    <<<<"s","o","n","g","s">>,
      <<"m","u","s","i","c"," ","b","o","t">>>>,
    <<<<"s","e","r","v","e","r"," ","e","v","e","n","t","s">>,
      <<"e","v","e","n","t","s">>>>,
    <<<<"a","c","t","i","v","i","t","i","e","s">>,
      <<"e","v","e","n","t","s">>>>,
    <<<<"w","h","a","t"," ","e","v","e","n","t","s">>,
      <<"e","v","e","n","t","s">>>>,
    <<<<"s","u","g","g","e","s","t"," ","f","e","a","t","u","r","e">>,
      <<"s","u","g","g","e","s","t"," ","n","e","w"," ","f","e","a","t","u","r","e","s">>>>,
    <<<<"i","d","e","a","s">>,
      <<"s","u","g","g","e","s","t"," ","n","e","w"," ","f","e","a","t","u","r","e","s">>>>,
    <<<<"f","e","e","d","b","a","c","k">>,
      <<"s","u","g","g","e","s","t"," ","n","e","w"," ","f","e","a","t","u","r","e","s">>>>,
    <<<<"r","a","n","k"," ","u","p">>,
      <<"l","e","v","e","l"," ","u","p">>>>,
    <<<<"r","a","n","k","i","n","g">>,
      <<"l","e","v","e","l"," ","u","p">>>>,
    <<<<"e","x","p","e","r","i","e","n","c","e">>,
      <<"l","e","v","e","l"," ","u","p">>>>,
    <<<<"c","r","e","a","t","e"," ","c","h","a","n","n","e","l">>,
      <<"c","r","e","a","t","e"," ","m","y"," ","o","w","n"," ","c","h","a","n","n","e","l">>>>,
    <<<<"n","e","w"," ","c","h","a","n","n","e","l">>,
      <<"c","r","e","a","t","e"," ","m","y"," ","o","w","n"," ","c","h","a","n","n","e","l">>>>,
    <<<<"t","e","c","h"," ","h","e","l","p">>,
      <<"t","e","c","h","n","i","c","a","l"," ","i","s","s","u","e","s">>>>,
    <<<<"s","u","p","p","o","r","t">>,
      <<"t","e","c","h","n","i","c","a","l"," ","i","s","s","u","e","s">>>>,
    <<<<"p","r","o","b","l","e","m">>,
      <<"t","e","c","h","n","i","c","a","l"," ","i","s","s","u","e","s">>>>
  >>

filler_words ==
  <<<<"w","h","a","t"," ","i","s">>,
    <<"w","h","a","t"," ","a","r","e">>,
    <<"h","o","w"," ","d","o"," ","i">>,
    <<"c","a","n"," ","i">>,
    <<"c","o","u","l","d"," ","y","o","u">>,
    <<"p","l","e","a","s","e">>,
    <<"t","h","a","n","k"," ","y","o","u">>,
    <<"t","h","a","n","k","s">>>>

\* for variation, standard in variations.items(): replace when present
RECURSIVE ApplyVariations(_, _)
ApplyVariations(query, k) ==
  IF k > Len(variations)
  THEN query
  ELSE IF Contains(query, variations[k][1])
       THEN ApplyVariations(
              Replace(query, variations[k][1], variations[k][2]), k + 1)
       ELSE ApplyVariations(query, k + 1)

\* for filler in filler_words: query = query.replace(filler, '')
RECURSIVE RemoveFillers(_, _)
RemoveFillers(query, k) ==
  IF k > Len(filler_words)
  THEN query
  ELSE RemoveFillers(Replace(query, filler_words[k], <<>>), k + 1)

preprocess_query(query) ==
  Strip(RemoveFillers(ApplyVariations(Lower(query), 1), 1))

(* ------------------------------------------------------------------ *)
(* Q&A parsing of KnowledgeBase.load_training_data                     *)
(* ------------------------------------------------------------------ *)

MarkQ == <<"Q", ":">>
MarkA == <<"A", ":">>

\* the pairs one section contributes: none, or <<question, answer>>
SectionPairs(section) ==
  IF Contains(section, MarkA)
  THEN LET question == Strip(Split(section, MarkA)[1])
           answer   == Strip(Split(section, MarkA)[2])
       IN IF question # <<>> /\ answer # <<>>
          THEN << <<question, answer>> >>
          ELSE <<>>
  ELSE <<>>

\* the loop over the sections that ends at the first section without a
\* pair
RECURSIVE PairsOfSectionsStopping(_, _)
PairsOfSectionsStopping(sections, k) ==
  IF k > Len(sections) \/ SectionPairs(sections[k]) = <<>>
  THEN <<>>
  ELSE SectionPairs(sections[k]) \o PairsOfSectionsStopping(sections, k + 1)

RECURSIVE PairsOfSections(_, _)
PairsOfSections(sections, k) ==
  IF k > Len(sections)
  THEN <<>>
  ELSE SectionPairs(sections[k]) \o PairsOfSections(sections, k + 1)

\* qa_pairs of load_training_data: sections[1:] of content.split('Q:')
ParseQA(content) == PairsOfSections(Split(content, MarkQ), 2)

(* ------------------------------------------------------------------ *)
(* Texts used as inputs                                                *)
(* ------------------------------------------------------------------ *)

\* find_best_answer's reply when there is no index or no corpus
NoInfoAnswer ==
  <<"I"," ","d","o","n","'","t"," ","h","a","v","e"," ","i","n","f","o",
    "r","m","a","t","i","o","n"," ","a","b","o","u","t"," ","t","h","a",
    "t"," ","t","o","p","i","c","."," ","P","l","e","a","s","e"," ","c",
    "o","n","t","a","c","t"," ","a"," ","s","e","r","v","e","r"," ","a",
    "d","m","i","n",".">>

\* find_best_answer's reply below the adjusted threshold
LowConfidenceAnswer ==
  <<"I"," ","d","o","n","'","t"," ","h","a","v","e"," ","a"," ","g","o",
    "o","d"," ","a","n","s","w","e","r"," ","f","o","r"," ","t","h","a",
    "t"," ","q","u","e","s","t","i","o","n","."," ","P","l","e","a","s",
    "e"," ","c","o","n","t","a","c","t"," ","a"," ","s","e","r","v","e",
    "r"," ","a","d","m","i","n"," ","f","o","r"," ","h","e","l","p",".">>

\* handle_ticket_message's reply when the retrieval raised
ErrorReply ==
  <<"S","o","r","r","y",","," ","I"," ","e","n","c","o","u","n","t","e",
    "r","e","d"," ","a","n"," ","e","r","r","o","r"," ","w","h","i","l",
    "e"," ","p","r","o","c","e","s","s","i","n","g"," ","y","o","u","r",
    " ","r","e","q","u","e","s","t",".">>

\* a corpus file with two pairs
FileA ==
  <<"Q",":"," ","s","e","r","v","e","r"," ","t","i","m","e","z","o","n",
    "e","\n","A",":"," ","U","T","C","\n","Q",":"," ","s","e","r","v","e",
    "r"," ","r","u","l","e","s","\n","A",":"," ","B","e"," ","n","i","c",
    "e","\n">>

\* a corpus file with one pair
FileB ==
  <<"Q",":"," ","g","e","t"," ","r","o","l","e","s","\n","A",":"," ","A",
    "s","k"," ","a"," ","m","o","d","\n">>

\* a readable corpus file that holds no pair
FileNoPairs ==
  <<"Q",":"," ","n","o","t","h","i","n","g"," ","y","e","t","\n">>

\* a corpus file with a question that has no answer before a pair
FileMixed == FileNoPairs \o FileB

QueryRules ==
  <<"W","h","a","t"," ","a","r","e"," ","t","h","e"," ","r","u","l","e",
    "s">>

QueryRoles ==
  <<"H","o","w"," ","d","o"," ","I"," ","g","e","t"," ","r","o","l","e","s">>

QueryBotRules ==
  <<"b","o","t"," ","r","u","l","e","s">>

QueryLunch ==
  <<"l","u","n","c","h">>

TextMusicBot ==
  <<"m","u","s","i","c"," ","b","o","t">>

TextUsePlay ==
  <<"U","s","e"," ","!","p","l","a","y">>

\* the queries asked, the thresholds passed (in hundredths) and the
\* pairs added
Queries == {QueryRules, QueryRoles, QueryBotRules, QueryLunch}

Thresholds == {55, 70}

AddPairs == {<<TextMusicBot, TextUsePlay>>}

\* a corpus grows by add_qa_pair up to this many pairs
MaxCorpus == 3

(* ------------------------------------------------------------------ *)
(* Optional values, files                                              *)
(* ------------------------------------------------------------------ *)

\* Python's None is the empty tuple, a value v is <<v>>
None == <<>>
Some(v) == <<v>>
IsNone(o) == o = None

\* the corpus file at Config.DATA_FILE: absent, present but not readable
\* as UTF-8 text, or a text
MissingFile == [kind |-> "missing", text |-> <<>>]
UnreadableFile == [kind |-> "unreadable", text |-> <<>>]
TextFile(t) == [kind |-> "text", text |-> t]

CorpusFiles ==
  {MissingFile, UnreadableFile,
   TextFile(FileA), TextFile(FileB), TextFile(FileNoPairs)}

(* ------------------------------------------------------------------ *)
(* Embedding model and flat L2 index                                   *)
(* ------------------------------------------------------------------ *)

\* Coordinates of the embedding space are counted in units of
\* 1/sqrt(DistScale), squared distances in units of 1/DistScale.
DistScale == 100

CharCode(c) ==
  IF \E i \in 1..Len(LowerChars) : LowerChars[i] = c
  THEN CHOOSE i \in 1..Len(LowerChars) : LowerChars[i] = c
  ELSE 0

RECURSIVE SumCodes(_)
SumCodes(text) ==
  IF text = <<>> THEN 0 ELSE CharCode(Head(text)) + SumCodes(Tail(text))

\* self.model.encode of one text: a deterministic function of the text
\* (a one-dimensional stand-in for the sentence embedding)
encode(text) == SumCodes(text)

\* self.model.encode of a list of texts, one row per text, in order
EncodeAll(texts) == [i \in 1..Len(texts) |-> encode(texts[i])]

\* squared Euclidean distance of IndexFlatL2
SqDist(a, b) == (a - b) * (a - b)

\* index.search: the row of the nearest vector (lowest row on ties),
\* rows counted from 1
NearestRow(rows, v) ==
  CHOOSE i \in 1..Len(rows) :
    \A j \in 1..Len(rows) :
      \/ SqDist(rows[i], v) < SqDist(rows[j], v)
      \/ SqDist(rows[i], v) = SqDist(rows[j], v) /\ i <= j

(* ------------------------------------------------------------------ *)
(* Confidence values: exact fractions <<numerator, denominator>>       *)
(* ------------------------------------------------------------------ *)

ZeroConfidence == <<0, 1>>

\* 1 - best_distance in place of 1 / (1 + best_distance)
SimilarityLinear(d) == <<DistScale - d, DistScale>>

\* 1 / (1 + best_distance), best_distance = d / DistScale
Similarity(d) == <<DistScale, DistScale + d>>

\* fraction >= bar, the bar in hundredths
AtLeast(frac, bar) == frac[1] * 100 >= bar * frac[2]

IsZero(frac) == frac[1] = 0

\* 0 < fraction <= 1
InUnitInterval(frac) == frac[1] > 0 /\ frac[2] > 0 /\ frac[1] <= frac[2]

Max(a, b) == IF a >= b THEN a ELSE b

(* ------------------------------------------------------------------ *)
(* KnowledgeBase                                                       *)
(* ------------------------------------------------------------------ *)

Firsts(pairs) == [i \in 1..Len(pairs) |-> pairs[i][1]]
Seconds(pairs) == [i \in 1..Len(pairs) |-> pairs[i][2]]

\* KnowledgeBase.__init__
NewKnowledgeBase ==
  [questions |-> <<>>, answers |-> <<>>,
   question_embeddings |-> None, index |-> None]

\* load_training_data that empties the corpus before it opens the file
load_training_data_clearing(kb, f) ==
  IF f.kind # "text"
  THEN [ret |-> FALSE,
        kb  |-> [kb EXCEPT !.questions = <<>>, !.answers = <<>>]]
  ELSE LET qa_pairs == ParseQA(f.text)
       IN [ret |-> TRUE,
           kb  |-> [kb EXCEPT !.questions = Firsts(qa_pairs),
                              !.answers = Seconds(qa_pairs)]]

\* load_training_data(file_path) on knowledge base kb with the file f
\* at file_path: the return value and the knowledge base afterwards
load_training_data(kb, f) ==
  IF f.kind = "missing"
  THEN [ret |-> FALSE, kb |-> kb]               \* except FileNotFoundError
  ELSE IF f.kind = "unreadable"
  THEN [ret |-> FALSE, kb |-> kb]               \* except Exception
  ELSE LET qa_pairs == ParseQA(f.text)
       IN [ret |-> TRUE,
           kb  |-> [kb EXCEPT !.questions = Firsts(qa_pairs),
                              !.answers = Seconds(qa_pairs)]]

\* build_index that drops the index when the corpus is empty
build_index_clearing(kb) ==
  IF kb.questions = <<>>
  THEN [ret |-> FALSE,
        kb  |-> [kb EXCEPT !.question_embeddings = None, !.index = None]]
  ELSE LET embeddings == EncodeAll(kb.questions)
       IN [ret |-> TRUE,
           kb  |-> [kb EXCEPT !.question_embeddings = Some(embeddings),
                              !.index = Some(embeddings)]]

\* build_index that discards an index it finds and builds one only when
\* there is none
build_index_toggling(kb) ==
  IF kb.questions = <<>>
  THEN [ret |-> FALSE, kb |-> kb]
  ELSE IF ~IsNone(kb.index)
  THEN [ret |-> TRUE,
        kb  |-> [kb EXCEPT !.question_embeddings = None, !.index = None]]
  ELSE LET embeddings == EncodeAll(kb.questions)
       IN [ret |-> TRUE,
           kb  |-> [kb EXCEPT !.question_embeddings = Some(embeddings),
                              !.index = Some(embeddings)]]

\* build_index()
build_index(kb) ==
  IF kb.questions = <<>>
  THEN [ret |-> FALSE, kb |-> kb]
  ELSE LET embeddings == EncodeAll(kb.questions)
       IN [ret |-> TRUE,
           kb  |-> [kb EXCEPT !.question_embeddings = Some(embeddings),
                              !.index = Some(embeddings)]]

\* add_qa_pair that appends and does not rebuild the index
add_qa_pair_no_rebuild(kb, question, answer) ==
  [kb EXCEPT !.questions = Append(kb.questions, question),
             !.answers = Append(kb.answers, answer)]

\* add_qa_pair that puts the answer at the front of answers
add_qa_pair_answer_first(kb, question, answer) ==
  build_index([kb EXCEPT !.questions = Append(kb.questions, question),
                         !.answers = <<answer>> \o kb.answers]).kb

\* add_qa_pair(question, answer)
add_qa_pair(kb, question, answer) ==
  build_index([kb EXCEPT !.questions = Append(kb.questions, question),
                         !.answers = Append(kb.answers, answer)]).kb

\* save_index(file_path): the index file afterwards
save_index(kb, saved) ==
  IF ~IsNone(kb.index) THEN kb.index ELSE saved

\* load_index(file_path) with the index file saved (None: no such file)
load_index(kb, saved) ==
  IF ~IsNone(saved)
  THEN [ret |-> TRUE, kb |-> [kb EXCEPT !.index = saved]]
  ELSE [ret |-> FALSE, kb |-> kb]

\* preprocess_query(query), computed once for each query of Queries
PreprocessedQueries == [q \in Queries |-> preprocess_query(q)]

Preprocessed(query) ==
  IF query \in Queries THEN PreprocessedQueries[query]
  ELSE preprocess_query(query)

\* threshold - 0.1 with no floor
AdjustedThresholdNoFloor(threshold) == threshold - 10

\* max(threshold - 0.1, 0.5), in hundredths
AdjustedThreshold(threshold) == Max(threshold - 10, 50)

\* find_best_answer raised instead of returning
Raised ==
  [answer |-> <<>>, confidence |-> ZeroConfidence, searched |-> FALSE,
   raised |-> TRUE]

\* find_best_answer from "processed_query = ..." on: the returned answer
\* and confidence; searched tells that index.search ran and returned
Retrieve(kb, query, threshold) ==
  LET processed_query == Preprocessed(query)
      query_embedding == encode(processed_query)
      row == NearestRow(kb.index[1], query_embedding)
      best_distance == SqDist(kb.index[1][row], query_embedding)
      similarity == Similarity(best_distance)
      adjusted_threshold == AdjustedThreshold(threshold)
  IN IF AtLeast(similarity, adjusted_threshold) /\ row <= Len(kb.answers)
     THEN [answer |-> kb.answers[row], confidence |-> similarity,
           searched |-> TRUE, raised |-> FALSE]
     ELSE [answer |-> LowConfidenceAnswer, confidence |-> similarity,
           searched |-> TRUE, raised |-> FALSE]

\* find_best_answer with the low-confidence reply at its first return
find_best_answer_low_reply(kb, query, threshold, fault) ==
  IF IsNone(kb.index) \/ kb.questions = <<>>
  THEN [answer |-> LowConfidenceAnswer, confidence |-> ZeroConfidence,
        searched |-> FALSE, raised |-> FALSE]
  ELSE IF fault THEN Raised
  ELSE Retrieve(kb, query, threshold)

\* find_best_answer(query, threshold). fault: a library call of the
\* retrieval (model.encode, index.search) raises; nothing in
\* find_best_answer catches it.
find_best_answer(kb, query, threshold, fault) ==
  IF IsNone(kb.index) \/ kb.questions = <<>>
  THEN [answer |-> NoInfoAnswer, confidence |-> ZeroConfidence,
        searched |-> FALSE, raised |-> FALSE]
  ELSE IF fault THEN Raised
  ELSE Retrieve(kb, query, threshold)

(* ------------------------------------------------------------------ *)
(* TicketBot: pure parts                                               *)
(* ------------------------------------------------------------------ *)

\* Config.SIMILARITY_THRESHOLD, in hundredths
SIMILARITY_THRESHOLD == 70

\* Config.BOT_PREFIX
BOT_PREFIX == <<"!">>

\* the cooldown of handle_ticket_message, in seconds
CooldownSeconds == 1

ticket_patterns ==
  {<<"t","i","c","k","e","t","-">>,
   <<"t","i","c","k","e","t","_">>,
   <<"t","i","c","k","e","t">>,
   <<"s","u","p","p","o","r","t","-">>,
   <<"s","u","p","p","o","r","t","_">>,
   <<"s","u","p","p","o","r","t">>,
   <<"h","e","l","p","-">>,
   <<"h","e","l","p","_">>,
   <<"h","e","l","p">>,
   <<"i","s","s","u","e","-">>,
   <<"i","s","s","u","e","_">>,
   <<"i","s","s","u","e">>}

question_indicators ==
  {<<"?">>,
   <<"h","o","w">>,
   <<"w","h","a","t">>,
   <<"w","h","e","n">>,
   <<"w","h","e","r","e">>,
   <<"w","h","y">>,
   <<"w","h","o">>,
   <<"h","e","l","p">>,
   <<"i","s","s","u","e">>,
   <<"p","r","o","b","l","e","m">>,
   <<"q","u","e","s","t","i","o","n">>,
   <<"s","u","p","p","o","r","t">>}

\* is_ticket_channel(channel), on the channel's name
is_ticket_channel(name) ==
  LET channel_name == Lower(name) IN
  \/ Contains(channel_name, <<"t","i","c","k","e","t">>)
  \/ \E pattern \in ticket_patterns : Contains(channel_name, pattern)

\* should_respond(message)
should_respond(message) ==
  LET content == Lower(message.content) IN
  \/ message.mentions
  \/ \E indicator \in question_indicators : Contains(content, indicator)

\* str.startswith
StartsWith(s, prefix) == StartsWithAt(s, prefix, 1)

\* f"{message.channel.id}_{message.author.id}"
ResponseKey(message) == <<message.channel, message.author>>

\* the messages that arrive: author, channel name, content, and whether
\* the message mentions the bot
BotUser == "bot"

TicketChannel == <<"t","i","c","k","e","t","-","1">>
GeneralChannel == <<"g","e","n","e","r","a","l">>
TrainCommand == <<"!","t","r","a","i","n">>

Message(author, channel, content, mentions) ==
  [author |-> author, channel |-> channel, content |-> content,
   mentions |-> mentions]

IncomingMessages ==
  {Message("alice", TicketChannel, QueryRoles, FALSE),
   Message("alice", TicketChannel, QueryBotRules, TRUE),
   Message("alice", TicketChannel, QueryLunch, FALSE),
   Message("alice", TicketChannel, TrainCommand, FALSE),
   Message("alice", GeneralChannel, QueryRoles, FALSE),
   Message(BotUser, TicketChannel, QueryRoles, FALSE)}

\* on_message calls in flight at a time, and the last second of the
\* clock
MaxHandlers == 2
MaxClock == 1

\* f"\nQ: {question}\nA: {answer}\n" appended by addqa
QaBlock(question, answer) ==
  <<"\n","Q",":"," ">> \o question \o <<"\n","A",":"," ">> \o answer
    \o <<"\n">>

\* open(Config.DATA_FILE, 'a') and write: a missing file is created, a
\* file that does not decode keeps its undecodable bytes
AppendToFile(f, text) ==
  IF f.kind = "missing" THEN TextFile(text)
  ELSE IF f.kind = "unreadable" THEN f
  ELSE TextFile(f.text \o text)

\* on_ready and the train command: load, and rebuild when the load
\* succeeded
LoadAndBuild(kb, f) ==
  LET loaded == load_training_data(kb, f) IN
  IF loaded.ret
  THEN [ret |-> TRUE, kb |-> build_index(loaded.kb).kb]
  ELSE [ret |-> FALSE, kb |-> loaded.kb]

(* ------------------------------------------------------------------ *)
(* State                                                               *)
(* ------------------------------------------------------------------ *)

VARIABLES
  questions,            \* KnowledgeBase.questions
  answers,              \* KnowledgeBase.answers
  question_embeddings,  \* KnowledgeBase.question_embeddings
  index,                \* KnowledgeBase.index
  file,                 \* the corpus file at Config.DATA_FILE
  indexFile,            \* the saved index on disk, None when absent
  lastOp,               \* the last operation called on the knowledge
                        \* base directly, and what it returned
  handlers,             \* the on_message calls in flight: a bag of
                        \* handlers, each at an await
  recent_responses,     \* TicketBot.recent_responses
  trainPc,              \* where the train command's handler stands
  clock                 \* datetime.now(), in seconds

kbVars == <<questions, answers, question_embeddings, index>>

botVars == <<handlers, recent_responses, trainPc, clock>>

vars == <<questions, answers, question_embeddings, index, file, indexFile,
          lastOp, handlers, recent_responses, trainPc, clock>>

\* the knowledge base object
KB ==
  [questions |-> questions, answers |-> answers,
   question_embeddings |-> question_embeddings, index |-> index]

SetKB(kb) ==
  /\ questions' = kb.questions
  /\ answers' = kb.answers
  /\ question_embeddings' = kb.question_embeddings
  /\ index' = kb.index

\* the result of an operation that is not find_best_answer
NoResult ==
  [answer |-> <<>>, confidence |-> ZeroConfidence, searched |-> FALSE,
   raised |-> FALSE]

\* an operation on the knowledge base: its name, its arguments, whether
\* it returned True (or returned at all, when it returns nothing), and
\* the tuple find_best_answer returned
Op(name, args, ret) ==
  [op |-> name, args |-> args, ret |-> ret, result |-> NoResult]

InitKB ==
  /\ questions = NewKnowledgeBase.questions
  /\ answers = NewKnowledgeBase.answers
  /\ question_embeddings = NewKnowledgeBase.question_embeddings
  /\ index = NewKnowledgeBase.index
  /\ indexFile = None
  /\ lastOp = Op("init", <<>>, TRUE)

InitBot ==
  /\ handlers = EmptyBag
  /\ recent_responses = <<>>
  /\ trainPc = "idle"
  /\ clock = 0

Init ==
  /\ InitKB
  /\ InitBot
  /\ file \in CorpusFiles

BotFiles == {MissingFile, TextFile(FileB), TextFile(FileNoPairs)}

InitOfBot ==
  /\ InitKB
  /\ InitBot
  /\ file \in BotFiles

(* ------------------------------------------------------------------ *)
(* Operations on the knowledge base, called in any order               *)
(* ------------------------------------------------------------------ *)

LoadTrainingData ==
  LET r == load_training_data(KB, file) IN
  /\ SetKB(r.kb)
  /\ lastOp' = Op("load_training_data", <<>>, r.ret)
  /\ UNCHANGED <<file, indexFile, botVars>>

BuildIndex ==
  LET r == build_index(KB) IN
  /\ SetKB(r.kb)
  /\ lastOp' = Op("build_index", <<>>, r.ret)
  /\ UNCHANGED <<file, indexFile, botVars>>

AddQaPair ==
  \E p \in AddPairs :
    /\ Len(questions) < MaxCorpus
    /\ SetKB(add_qa_pair(KB, p[1], p[2]))
    /\ lastOp' = Op("add_qa_pair", p, TRUE)
    /\ UNCHANGED <<file, indexFile, botVars>>

SaveIndex ==
  /\ indexFile' = save_index(KB, indexFile)
  /\ lastOp' = Op("save_index", <<>>, TRUE)
  /\ UNCHANGED <<kbVars, file, botVars>>

LoadIndex ==
  LET r == load_index(KB, indexFile) IN
  /\ SetKB(r.kb)
  /\ lastOp' = Op("load_index", <<>>, r.ret)
  /\ UNCHANGED <<file, indexFile, botVars>>

FindBestAnswer ==
  \E q \in Queries, t \in Thresholds :
    /\ lastOp' = [Op("find_best_answer", <<q, t>>, TRUE) EXCEPT
                    !.result = find_best_answer(KB, q, t, FALSE)]
    /\ UNCHANGED <<kbVars, file, indexFile, botVars>>

\* the corpus file is edited, removed or replaced outside the program
EditFile ==
  \E f \in CorpusFiles :
    /\ f # file
    /\ file' = f
    /\ lastOp' = Op("edit_file", <<>>, TRUE)
    /\ UNCHANGED <<kbVars, indexFile, botVars>>

Next ==
  \/ LoadTrainingData
  \/ BuildIndex
  \/ AddQaPair
  \/ SaveIndex
  \/ LoadIndex
  \/ FindBestAnswer
  \/ EditFile

Spec == Init /\ [][Next]_vars

(* ------------------------------------------------------------------ *)
(* load_training_data on every short corpus text                       *)
(* ------------------------------------------------------------------ *)

\* the characters of the corpus texts tried, and their greatest length
ParseAlphabet == {"Q", "A", ":", " "}

MaxLen == 7

ShortTexts == UNION {[1..n -> ParseAlphabet] : n \in 0..MaxLen}

InitParse ==
  /\ InitKB
  /\ InitBot
  /\ file \in {TextFile(t) : t \in ShortTexts \cup {FileA, FileB, FileMixed}}

NextParse == LoadTrainingData

SpecParse == InitParse /\ [][NextParse]_vars

(* ------------------------------------------------------------------ *)
(* The bot: handlers of one event loop, interleaved at their awaits    *)
(* ------------------------------------------------------------------ *)

\* the cooldown test of handle_ticket_message
InCooldown(recent, key, current_time) ==
  /\ key \in DOMAIN recent
  /\ current_time - recent[key] < CooldownSeconds

\* the tests of on_message and handle_ticket_message that read the
\* message alone
PassesFilters(message) ==
  /\ message.author # BotUser
  /\ is_ticket_channel(message.channel)
  /\ ~StartsWith(message.content, BOT_PREFIX)
  /\ should_respond(message)

\* PassesFilters, computed once for each message of IncomingMessages
FilterTable == [message \in IncomingMessages |-> PassesFilters(message)]

\* on_message for one message, up to its first await: the handler comes
\* to rest at "await message.reply(answer)" or at the reply of the
\* except branch, or it returns without a reply. fault: the retrieval
\* raises.
OnMessageWith(message, fault) ==
  LET key == ResponseKey(message)
      current_time == clock
      handled ==
        /\ FilterTable[message]
        /\ ~InCooldown(recent_responses, key, current_time)
      r == find_best_answer(KB, message.content, SIMILARITY_THRESHOLD,
                            fault)
      h == [pc |-> IF r.raised THEN "error_reply" ELSE "reply",
            key |-> key,
            current_time |-> current_time,
            answer |-> r.answer]
  IN /\ BagCardinality(handlers) < MaxHandlers
     /\ fault => handled /\ r.raised
     /\ handlers' = IF handled THEN handlers (+) SetToBag({h}) ELSE handlers
     /\ UNCHANGED <<kbVars, file, indexFile, lastOp, recent_responses,
                    trainPc, clock>>

OnMessage ==
  \E message \in IncomingMessages, fault \in BOOLEAN :
    OnMessageWith(message, fault)

\* what the user sees from handler h
ReplyText(h) == IF h.pc = "error_reply" THEN ErrorReply ELSE h.answer

\* the reply of handler h was sent: the handler records the response
\* time, logs the interaction and ends
ReplySentBy(h) ==
  /\ h.pc = "reply"
  /\ recent_responses' =
       [k \in DOMAIN recent_responses \cup {h.key} |->
          IF k = h.key THEN h.current_time ELSE recent_responses[k]]
  /\ handlers' = handlers (-) SetToBag({h})
  /\ UNCHANGED <<kbVars, file, indexFile, lastOp, trainPc, clock>>

ReplySent == \E h \in BagToSet(handlers) : ReplySentBy(h)

\* the reply of the except branch was sent: the handler ends
ErrorReplySentBy(h) ==
  /\ h.pc = "error_reply"
  /\ handlers' = handlers (-) SetToBag({h})
  /\ UNCHANGED <<kbVars, file, indexFile, lastOp, recent_responses, trainPc,
                 clock>>

ErrorReplySent == \E h \in BagToSet(handlers) : ErrorReplySentBy(h)

\* on_ready, up to its await
OnReady ==
  LET r == IF file.kind # "missing"
           THEN LoadAndBuild(KB, file)
           ELSE [ret |-> FALSE, kb |-> KB]
  IN /\ SetKB(r.kb)
     /\ UNCHANGED <<file, indexFile, lastOp, botVars>>

\* train, up to "await ctx.send(...)" before the reload
TrainStart ==
  /\ trainPc = "idle"
  /\ trainPc' = "sent"
  /\ UNCHANGED <<kbVars, file, indexFile, lastOp, handlers, recent_responses,
                 clock>>

\* train that reloads the corpus and leaves the rebuild for later
TrainRunLoadOnly ==
  LET r == load_training_data(KB, file) IN
  /\ trainPc = "sent"
  /\ trainPc' = "idle"
  /\ SetKB(r.kb)
  /\ UNCHANGED <<file, indexFile, lastOp, handlers, recent_responses, clock>>

\* train, from there to its next await: reload and rebuild
TrainRun ==
  LET r == LoadAndBuild(KB, file) IN
  /\ trainPc = "sent"
  /\ trainPc' = "idle"
  /\ SetKB(r.kb)
  /\ UNCHANGED <<file, indexFile, lastOp, handlers, recent_responses, clock>>

\* addqa, up to its await. written: the append to the corpus file went
\* through; when it raises, the except branch reports the error.
AddQaWith(question, answer, written) ==
  /\ Len(questions) < MaxCorpus
  /\ SetKB(add_qa_pair(KB, question, answer))
  /\ file' = IF written THEN AppendToFile(file, QaBlock(question, answer))
             ELSE file
  /\ UNCHANGED <<indexFile, lastOp, botVars>>

AddQa ==
  \E p \in AddPairs, written \in BOOLEAN : AddQaWith(p[1], p[2], written)

\* the corpus file is edited, removed or replaced while the bot runs
EditFileBot ==
  \E f \in BotFiles :
    /\ f # file
    /\ file' = f
    /\ UNCHANGED <<kbVars, indexFile, lastOp, botVars>>

Tick ==
  /\ clock < MaxClock
  /\ clock' = clock + 1
  /\ UNCHANGED <<kbVars, file, indexFile, lastOp, handlers,
                 recent_responses, trainPc>>

NextBot ==
  \/ OnMessage
  \/ ReplySent
  \/ ErrorReplySent
  \/ OnReady
  \/ TrainStart
  \/ TrainRun
  \/ AddQa
  \/ EditFileBot
  \/ Tick

SpecBot == InitOfBot /\ [][NextBot]_vars

(* ------------------------------------------------------------------ *)
(* preprocess_query on the phrases of the alias table                  *)
(* ------------------------------------------------------------------ *)

\* the queries tried for entry k of the table: the variation as it is,
\* asked as a question, and with blanks around it
AliasQueriesOf(k) ==
  {variations[k][1],
   variations[k][1] \o <<"?">>,
   <<" ">> \o variations[k][1] \o <<" ">>}

AliasQueries == UNION {AliasQueriesOf(k) : k \in 1..Len(variations)}

\* preprocess_query, computed once for each query of AliasQueries
PreprocessedAliases == [q \in AliasQueries |-> preprocess_query(q)]

\* one call of preprocess_query; ret is the string it returns
PreprocessQuery ==
  \E q \in AliasQueries :
    /\ lastOp' = Op("preprocess_query", <<q>>, PreprocessedAliases[q])
    /\ UNCHANGED <<kbVars, file, indexFile, botVars>>

InitAlias ==
  /\ InitKB
  /\ InitBot
  /\ file = MissingFile

NextAlias == PreprocessQuery

SpecAlias == InitAlias /\ [][NextAlias]_vars

(* ------------------------------------------------------------------ *)
(* addqa and train on texts that hold the marks of the corpus file     *)
(* ------------------------------------------------------------------ *)

\* the questions and answers given to addqa: a plain word, a word with
\* a blank before it, and the two marks
RoundTripTexts == {<<"x">>, <<" ", "x">>, MarkQ, MarkA}

RoundTripFiles == {MissingFile, TextFile(<<>>)}

\* addqa is called while the corpus file is shorter than this
MaxFileText == 25

\* addqa on these texts, the append going through
AddQaRoundTrip ==
  \E question \in RoundTripTexts, answer \in RoundTripTexts :
    /\ Len(file.text) < MaxFileText
    /\ AddQaWith(question, answer, TRUE)

InitRoundTrip ==
  /\ InitKB
  /\ InitBot
  /\ file \in RoundTripFiles

NextRoundTrip ==
  \/ OnReady
  \/ AddQaRoundTrip
  \/ TrainStart
  \/ TrainRun

SpecRoundTrip == InitRoundTrip /\ [][NextRoundTrip]_vars

(* ------------------------------------------------------------------ *)
(* Properties                                                          *)
(* ------------------------------------------------------------------ *)

\* Ready: an index exists and its rows are the embeddings of the current
\* questions, one row per question
Ready == ~IsNone(index) /\ index[1] = EncodeAll(questions)

\* find_best_answer gets past its first test
Searchable == ~IsNone(index) /\ questions # <<>>

IsFind == lastOp.op = "find_best_answer"

NoInfoResult ==
  [answer |-> NoInfoAnswer, confidence |-> ZeroConfidence,
   searched |-> FALSE, raised |-> FALSE]

\* C1: find_best_answer searches only in the Ready state; in every other
\* state reached by load_training_data, build_index, add_qa_pair and
\* load_index it returns the fixed fallback with confidence 0.0.
C1_SearchOnlyWhenReady ==
  IsFind =>
    IF Ready THEN lastOp.result.searched ELSE lastOp.result = NoInfoResult

\* C2: after every add_qa_pair(question, answer) that returns, the pair
\* is the last entry of the corpus and the index is rebuilt over the
\* whole corpus: the knowledge base is Ready.
C2_AddLeavesReady ==
  lastOp.op = "add_qa_pair" =>
    /\ Ready
    /\ Len(questions) = Len(answers)
    /\ Len(index[1]) = Len(questions)
    /\ questions[Len(questions)] = lastOp.args[1]
    /\ answers[Len(answers)] = lastOp.args[2]
    /\ question_embeddings = index

\* C2 witness: a pair was added to a corpus that held pairs already
C2_Witness ==
  /\ lastOp.op = "add_qa_pair"
  /\ Len(questions) > 1
  /\ Ready

\* the least squared distance of embedding e to a row of the index
LeastDistance(rows, e) ==
  CHOOSE d \in {SqDist(rows[i], e) : i \in 1..Len(rows)} :
    \A i \in 1..Len(rows) : d <= SqDist(rows[i], e)

\* C3: in the Ready state find_best_answer returns similarity
\* 1/(1+bestDistance) of the nearest neighbour; with the bar
\* max(t-0.1, 0.5) (0.6 for t=0.7, 0.5 for t=0.55) it returns the answer
\* of a nearest row when similarity >= bar, and else the low-confidence
\* fallback with the computed similarity.
C3_ThresholdPolicy ==
  /\ AdjustedThreshold(70) = 60
  /\ AdjustedThreshold(55) = 50
  /\ IsFind /\ Ready =>
       LET t == lastOp.args[2]
           e == encode(Preprocessed(lastOp.args[1]))
           d == LeastDistance(index[1], e)
           bar == IF t - 10 > 50 THEN t - 10 ELSE 50
           accepted == 100 * DistScale >= bar * (DistScale + d)
           r == lastOp.result
       IN /\ r.searched /\ ~r.raised
          /\ r.confidence = <<DistScale, DistScale + d>>
          /\ IF accepted
             THEN \E i \in 1..Len(answers) :
                    /\ SqDist(index[1][i], e) = d
                    /\ r.answer = answers[i]
             ELSE r.answer = LowConfidenceAnswer

\* C3 witness: with t=0.55 a similarity between 0.45 and 0.5 is under
\* the floored bar and gets the low-confidence fallback
C3_Witness ==
  /\ IsFind /\ Ready
  /\ lastOp.args[2] = 55
  /\ AtLeast(lastOp.result.confidence, 45)
  /\ ~AtLeast(lastOp.result.confidence, 50)
  /\ lastOp.result.answer = LowConfidenceAnswer

\* C4: find_best_answer returns confidence 0.0 only when there is no
\* index or the corpus is empty; in every other case the confidence is in
\* (0, 1].
C4_ZeroOnlyWithoutIndex ==
  IsFind =>
    /\ IsZero(lastOp.result.confidence) => ~Searchable
    /\ Searchable => InUnitInterval(lastOp.result.confidence)

\* C4 witness: a query under the bar, answered with the low-confidence
\* fallback and a positive confidence
C4_Witness ==
  /\ IsFind /\ Searchable
  /\ lastOp.result.answer = LowConfidenceAnswer
  /\ ~AtLeast(lastOp.result.confidence, 50)
  /\ InUnitInterval(lastOp.result.confidence)

\* C5: a fault inside the retrieval never reaches the user as anything
\* but the fixed fallback answer: no handler sends the error reply.
C5_FaultGivesFallback ==
  \A h \in BagToSet(handlers) : ReplyText(h) # ErrorReply

\* the first "A:" of a section splits it in the question before it and
\* the answer after it
FirstSplitPairs(section) ==
  LET p == FindFrom(section, MarkA, 1)
      question == Strip(SubSeq(section, 1, p - 1))
      answer == Strip(SubSeq(section, p + Len(MarkA), Len(section)))
  IN IF p # 0 /\ question # <<>> /\ answer # <<>>
     THEN << <<question, answer>> >>
     ELSE <<>>

RECURSIVE FirstSplitParse(_, _)
FirstSplitParse(sections, k) ==
  IF k > Len(sections)
  THEN <<>>
  ELSE FirstSplitPairs(sections[k]) \o FirstSplitParse(sections, k + 1)

\* C6: a successful load emits, in source order, one pair per "Q:"
\* segment after the first: the trimmed text before the segment's first
\* "A:" and the trimmed text of everything after it, when both are
\* non-empty.
C6_SplitAtFirstAnswerMark ==
  lastOp.op = "load_training_data" /\ lastOp.ret =>
    LET pairs == FirstSplitParse(Split(file.text, MarkQ), 2) IN
    /\ questions = Firsts(pairs)
    /\ answers = Seconds(pairs)

\* C7: when the append to the corpus file fails during addqa, questions,
\* answers and index are what they were before the command.
C7_FailedAppendKeepsMemory ==
  [][\A p \in AddPairs : AddQaWith(p[1], p[2], FALSE) => UNCHANGED kbVars]_vars

\* no corpus was loaded and no index was built
Uninitialized ==
  /\ questions = <<>>
  /\ answers = <<>>
  /\ IsNone(question_embeddings)
  /\ IsNone(index)

\* C8: on an Uninitialized knowledge base find_best_answer returns, for
\* every query and threshold, the fixed "I don't have information about
\* that topic" fallback with confidence 0.0, and changes no state.
C8_UninitializedFallback ==
  [][Uninitialized /\ lastOp'.op = "find_best_answer" =>
       /\ lastOp'.result.answer = NoInfoAnswer
       /\ lastOp'.result.confidence = ZeroConfidence
       /\ UNCHANGED <<kbVars, file, indexFile>>]_vars

\* C8 witness: a query answered on an Uninitialized knowledge base
C8_Witness ==
  /\ IsFind /\ Uninitialized
  /\ lastOp.result = NoInfoResult

\* C9: at every point where a query handler can run, between the awaits
\* of train, addqa and on_ready, a knowledge base that can be searched
\* has the index built from its current corpus: no query meets a new
\* corpus with the old index, or an index that is not filled.
C9_QueriesSeeConsistentIndex == Searchable => Ready

\* C9 witness: a query was answered from the index while the train
\* command stood at its await
C9_Witness ==
  /\ trainPc = "sent"
  /\ Ready
  /\ \E h \in BagToSet(handlers) :
       h.pc = "reply" /\ h.answer \in {answers[i] : i \in 1..Len(answers)}

\* C10: a load_training_data that fails leaves questions, answers and
\* the index as they were; one that succeeds gives the corpus a load into
\* a new knowledge base gives, whatever the corpus was before.
C10_FailedLoadKeepsCorpus ==
  [][lastOp'.op = "load_training_data" =>
       IF lastOp'.ret
       THEN LET fresh == load_training_data(NewKnowledgeBase, file).kb IN
            /\ file.kind = "text"
            /\ questions' = fresh.questions
            /\ answers' = fresh.answers
            /\ UNCHANGED <<question_embeddings, index>>
       ELSE /\ file.kind # "text"
            /\ UNCHANGED kbVars]_vars

\* C10 witness: a load failed on a knowledge base that holds a corpus
C10_Witness ==
  /\ lastOp.op = "load_training_data"
  /\ ~lastOp.ret
  /\ questions # <<>>
  /\ Ready

\* C11: build_index on an empty corpus returns False and leaves
\* questions, answers, the embeddings and an index built before as they
\* were; on a corpus that is not empty it returns True, leaves the corpus
\* alone and installs an index of exactly len(questions) rows.
C11_BuildIndexContract ==
  [][lastOp'.op = "build_index" =>
       IF questions = <<>>
       THEN /\ ~lastOp'.ret
            /\ UNCHANGED kbVars
       ELSE /\ lastOp'.ret
            /\ UNCHANGED <<questions, answers>>
            /\ ~IsNone(index')
            /\ Len(index'[1]) = Len(questions')
            /\ index' = Some(EncodeAll(questions'))]_vars

\* C11 witness: build_index failed on an empty corpus while an index
\* built before is held
C11_Witness ==
  /\ lastOp.op = "build_index"
  /\ ~lastOp.ret
  /\ questions = <<>>
  /\ ~IsNone(index)

PairsOfFile(f) ==
  IF f.kind = "text"
  THEN {ParseQA(f.text)[i] : i \in 1..Len(ParseQA(f.text))}
  ELSE {}

KnownPairs == AddPairs \cup UNION {PairsOfFile(f) : f \in CorpusFiles}

\* C13: after any sequence of load_training_data, build_index and
\* add_qa_pair, questions and answers have the same length and
\* answers[i] is the answer that was loaded or added with questions[i].
C13_QuestionsPairedWithAnswers ==
  /\ Len(questions) = Len(answers)
  /\ \A i \in 1..Len(questions) : <<questions[i], answers[i]>> \in KnownPairs

\* C13 witness: a pair was added behind a pair loaded from the file
C13_Witness ==
  /\ lastOp.op = "add_qa_pair"
  /\ Len(questions) >= 2
  /\ questions[1] # questions[Len(questions)]
  /\ answers[1] # answers[Len(answers)]

\* a "Q:" segment with no "A:", or with nothing but whitespace before
\* its first "A:" or after it
Malformed(section) == FirstSplitPairs(section) = <<>>

\* the sections but the k-th, put together again with "Q:" between them
RECURSIVE JoinWithout(_, _, _)
JoinWithout(sections, k, i) ==
  IF i > Len(sections) THEN <<>>
  ELSE IF i = k THEN JoinWithout(sections, k, i + 1)
  ELSE (IF i = 1 THEN <<>> ELSE MarkQ) \o sections[i]
         \o JoinWithout(sections, k, i + 1)

\* C14: a load of a readable file succeeds whatever its segments are,
\* and a "Q:" segment with no "A:", an empty question or an empty answer
\* adds nothing: the corpus is the one the same text without that
\* segment gives.
C14_MalformedSegmentSkipped ==
  lastOp.op = "load_training_data" =>
    /\ lastOp.ret
    /\ LET sections == Split(file.text, MarkQ) IN
       \A k \in 2..Len(sections) :
         Malformed(sections[k]) =>
           LET others == ParseQA(JoinWithout(sections, k, 1)) IN
           /\ questions = Firsts(others)
           /\ answers = Seconds(others)

\* C14 witness: a file with a question that has no answer, and a pair
\* behind it, was loaded
C14_Witness ==
  /\ lastOp.op = "load_training_data"
  /\ lastOp.ret
  /\ questions # <<>>
  /\ LET sections == Split(file.text, MarkQ) IN
     \E k \in 2..Len(sections) :
       /\ ~Contains(sections[k], MarkA)
       /\ \E j \in (k + 1)..Len(sections) : ~Malformed(sections[j])

\* C15: for every entry (variation, standard) of the alias table,
\* preprocess_query of a query made of the variation returns a string
\* that contains standard.
C15_AliasGivesCanonical ==
  lastOp.op = "preprocess_query" =>
    \A k \in 1..Len(variations) :
      lastOp.args[1] \in AliasQueriesOf(k) =>
        Contains(lastOp.ret, variations[k][2])

\* C16: an answer of find_best_answer that is not one of the two
\* fallback replies is answers[i] for the question questions[i] of the
\* corpus held at the call whose embedding is nearest to the normalized
\* query.
C16_AnswerOfNearestQuestion ==
  IsFind /\ lastOp.result.answer \notin {NoInfoAnswer, LowConfidenceAnswer} =>
    LET e == encode(Preprocessed(lastOp.args[1]))
        i == NearestRow(EncodeAll(questions), e)
    IN lastOp.result.answer = answers[i]

\* C17: no two on_message handlers for the same channel and author
\* that started less than a second apart both come to send the reply
\* of the knowledge base.
C17_CooldownPreventsDuplicates ==
  \A h1 \in BagToSet(handlers), h2 \in BagToSet(handlers) :
    /\ h1.pc = "reply"
    /\ h2.pc = "reply"
    /\ h1.key = h2.key
    /\ h1.current_time - h2.current_time < CooldownSeconds
    /\ h2.current_time - h1.current_time < CooldownSeconds
    => h1 = h2 /\ CopiesIn(h1, handlers) = 1

\* the corpus of a knowledge base as a list of pairs
PairsOf(kb) ==
  [i \in 1..Len(kb.questions) |-> <<kb.questions[i], kb.answers[i]>>]

\* C18: when the corpus held equals the parse of the corpus file, an
\* addqa(question, answer) whose append went through leaves a file that
\* the train command reloads to the corpus now held: the pairs held
\* before, and <<question, answer>> behind them.
C18_AddQaTrainRoundTrip ==
  [][\A question \in RoundTripTexts, answer \in RoundTripTexts :
       /\ file.kind = "text"
       /\ PairsOf(KB) = ParseQA(file.text)
       /\ AddQaWith(question, answer, TRUE)
       => LET reloaded == load_training_data(KB', file') IN
          /\ PairsOf(KB') = Append(PairsOf(KB), <<question, answer>>)
          /\ reloaded.ret
          /\ PairsOf(reloaded.kb) = PairsOf(KB')]_vars

====
